---- MODULE Spec2Model ----
(***************************************************************************)
(* A model of pynbody's light-weight units module (src/pynbody/units.py):  *)
(* the unit registry, the four unit variants, expand/gather, irrep, the    *)
(* conversion ratio, the string parser and renderer, and the dimensional   *)
(* projection.                                                             *)
(*                                                                         *)
(* Representation.                                                         *)
(*  - A Python string is the sequence of its characters, each a one-       *)
(*    character TLA+ string: "kg" is <<"k","g">>.                          *)
(*  - An exponent (int or Fraction) is a reduced fraction <<num, den>>     *)
(*    with den > 0; Python compares 1 and Fraction(1,1) equal, so both     *)
(*    are <<1,1>>.                                                         *)
(*  - A scale (a positive Python float) is the exact positive real it      *)
(*    stands for, written as a product of primes raised to rational        *)
(*    exponents: a function from primes to nonzero fractions. This set is  *)
(*    closed under the only arithmetic the module applies to scales        *)
(*    (multiplication and raising to a rational power). IEEE rounding of   *)
(*    those operations is not modelled; zero and negative scales are       *)
(*    outside the model.                                                   *)
(*  - A unit object is a record. Irreducible and named units are           *)
(*    identified by name (the registry admits each name once); a named     *)
(*    unit carries its definition, as the object carries _represents.      *)
(*  - The outcome of a call is Return(v) or Raise(exception, message).     *)
(*  - Where the identity of objects matters (in-place simplification,      *)
(*    copies, shared definitions) units are objects on a heap: the         *)
(*    variable heap holds the unit objects and the Python lists they       *)
(*    refer to, and a reference is an index into it. The calls on values   *)
(*    leave the heap alone.                                                *)
(***************************************************************************)
EXTENDS Integers, Sequences, FiniteSets, TLC

VARIABLES registry, call, result, heap

vars == <<registry, call, result, heap>>

(***************************************************************************)
(* A local variable of the source, v = x, whose value is then used in e,   *)
(* is written (CHOOSE it \in {e : v \in {x}} : TRUE): e with v bound to    *)
(* the value of x, which is computed once.                                 *)
(***************************************************************************)

(***************************************************************************)
(* Outcomes of a call.                                                     *)
(***************************************************************************)
Return(v) == [exc |-> "none", val |-> v]

Raise(e, m) == [exc |-> e, msg |-> m]

Returned(r) == r.exc = "none"

(***************************************************************************)
(* Fraction arithmetic (fractions.Fraction, and Python ints as n/1).       *)
(***************************************************************************)
Abs(x) == IF x < 0 THEN -x ELSE x

RECURSIVE GCD(_, _)
GCD(a, b) == IF b = 0 THEN a ELSE GCD(b, a % b)

Frac(n, d) ==
    LET g == GCD(Abs(n), Abs(d))
        s == IF d < 0 THEN -1 ELSE 1
    IN  <<(s * n) \div g, (s * d) \div g>>

FZero == <<0, 1>>

FOne == <<1, 1>>

FInt(n) == <<n, 1>>

FAdd(x, y) == Frac(x[1] * y[2] + y[1] * x[2], x[2] * y[2])

FMul(x, y) == Frac(x[1] * y[1], x[2] * y[2])

FNeg(x) == <<-x[1], x[2]>>

FSub(x, y) == FAdd(x, FNeg(y))

FLess(x, y) == x[1] * y[2] < y[1] * x[2]

FInv(x) == Frac(x[2], x[1])

(***************************************************************************)
(* Scales: positive reals as products of primes to rational exponents.     *)
(***************************************************************************)
SOne == [q \in {} |-> FOne]

SExp(a, q) == IF q \in DOMAIN a THEN a[q] ELSE FZero

SMul(x, y) ==
    (CHOOSE it \in {(CHOOSE it \in {LET D == DOMAIN a \cup DOMAIN b
            e(q) == FAdd(SExp(a, q), SExp(b, q))
        IN  [q \in {r \in D : e(r) /= FZero} |-> e(q)] :
            b \in {y}} : TRUE) :
            a \in {x}} : TRUE)

SPow(x, p) ==
    (CHOOSE it \in {IF p = FZero THEN SOne ELSE [q \in DOMAIN a |-> FMul(a[q], p)] :
            a \in {x}} : TRUE)

RECURSIVE LeastDivisorFrom(_, _)
LeastDivisorFrom(n, k) ==
    IF k * k > n THEN n
    ELSE IF n % k = 0 THEN k
    ELSE LeastDivisorFrom(n, k + 1)

RECURSIVE SFromNat(_)
SFromNat(n) ==
    IF n = 1 THEN SOne
    ELSE LET q == LeastDivisorFrom(n, 2)
         IN  SMul([r \in {q} |-> FOne], SFromNat(n \div q))

\* the float equal to the positive rational n/d
SFromRatio(n, d) == SMul(SFromNat(n), SPow(SFromNat(d), FInt(-1)))

RECURSIVE IPow(_, _)
IPow(b, n) == IF n = 0 THEN 1 ELSE b * IPow(b, n - 1)

RECURSIVE LCMOf(_)
LCMOf(S) ==
    IF S = {} THEN 1
    ELSE LET x == CHOOSE y \in S : TRUE
             l == LCMOf(S \ {x})
         IN  (l * x) \div GCD(l, x)

RECURSIVE ProdOver(_, _, _)
\* the product of q^(F[q]) over the primes q of D, F[q] a natural number
ProdOver(D, a, L) ==
    IF D = {} THEN 1
    ELSE LET q == CHOOSE r \in D : TRUE
         IN  IPow(q, (Abs(a[q][1]) * L) \div a[q][2]) * ProdOver(D \ {q}, a, L)

\* a^L as a fraction <<n, d>>, L the least common denominator of a's exponents
SPowerAsFrac(a) ==
    LET L == LCMOf({a[q][2] : q \in DOMAIN a})
    IN  <<ProdOver({q \in DOMAIN a : a[q][1] > 0}, a, L),
          ProdOver({q \in DOMAIN a : a[q][1] < 0}, a, L)>>

\* float comparisons with 1: x < 1 iff x^L < 1 for x > 0, L > 0
SLessOne(a) == LET f == SPowerAsFrac(a) IN f[1] < f[2]

SGreaterOne(a) == LET f == SPowerAsFrac(a) IN f[1] > f[2]

SIsRational(a) == \A q \in DOMAIN a : a[q][2] = 1

\* the value of a scale whose exponents are all integers
SAsFrac(a) == SPowerAsFrac(a)

(***************************************************************************)
(* Strings.                                                                *)
(***************************************************************************)
\* the characters str.split() treats as separators that the model's strings use
Whitespace == {" ", "\t"}

RECURSIVE Contains(_, _)
\* sub in st
Contains(st, sub) ==
    IF Len(st) < Len(sub) THEN FALSE
    ELSE IF SubSeq(st, 1, Len(sub)) = sub THEN TRUE
    ELSE Contains(Tail(st), sub)

(***************************************************************************)
(* The unit variants.                                                      *)
(***************************************************************************)
NoUnit == [kind |-> "NoUnit"]

no_unit == NoUnit

IrreducibleUnitObj(st) == [kind |-> "I", name |-> st]

NamedUnitObj(st, represents) == [kind |-> "N", name |-> st, represents |-> represents]

CompositeUnit(scale, bases, powers) ==
    [kind |-> "C", scale |-> scale, bases |-> bases, powers |-> powers]

IsUnitBase(u) == u.kind \in {"NoUnit", "I", "N", "C"}

\* a heap with no unit object and no list on it
NoObjects == [objs |-> << >>, lists |-> << >>]

(***************************************************************************)
(* CompositeUnit._expand, _gather, copy, simplify, irrep.                  *)
(***************************************************************************)
RECURSIVE Irrep(_)

\* one iteration of the loop of _expand over (i, (b, p))
ExpandStep(acc, b0, p, i, expand_to_irrep) ==
    (CHOOSE it \in {IF b1.kind = "C"
        THEN (CHOOSE it \in {[scale  |-> SMul(acc.scale, SPow(b.scale, p)),
                  bases  |-> acc.bases \o b.bases,
                  powers |-> acc.powers \o [j \in 1..Len(b.powers) |-> FMul(b.powers[j], p)],
                  trash  |-> acc.trash \cup {i}] :
            b \in {IF expand_to_irrep THEN Irrep(b1) ELSE b1}} : TRUE)
        ELSE acc :
            b1 \in {IF b0.kind = "N" /\ expand_to_irrep THEN Irrep(b0.represents) ELSE b0}} : TRUE)

RECURSIVE ExpandLoop(_, _, _, _)
\* the loop runs over a snapshot (zip) of the lists as they were on entry
ExpandLoop(snapshot, i, acc, expand_to_irrep) ==
    IF i > Len(snapshot.bases) THEN acc
    ELSE (CHOOSE it \in {ExpandLoop(snapshot, i + 1, next, expand_to_irrep) :
            next \in {ExpandStep(acc, snapshot.bases[i], snapshot.powers[i], i, expand_to_irrep)}} : TRUE)

RECURSIVE DeleteAt(_, _, _)
\* the sequence s without the entries whose index is in trash
DeleteAt(s, trash, i) ==
    IF i > Len(s) THEN << >>
    ELSE (IF i \in trash THEN << >> ELSE <<s[i]>>) \o DeleteAt(s, trash, i + 1)

Expand(unit, expand_to_irrep) ==
    (CHOOSE it \in {(CHOOSE it \in {CompositeUnit(acc.scale, DeleteAt(acc.bases, acc.trash, 1),
                      DeleteAt(acc.powers, acc.trash, 1)) :
            acc \in {ExpandLoop(self, 1,
                   [scale |-> self.scale, bases |-> self.bases,
                    powers |-> self.powers, trash |-> {}],
                   expand_to_irrep)}} : TRUE) :
            self \in {unit}} : TRUE)

RECURSIVE SetOrder(_)
\* list(set(...)): the elements of the set in its iteration order, which is
\* fixed by the objects' hashes and otherwise arbitrary
SetOrder(S) ==
    IF S = {} THEN << >>
    ELSE LET x == CHOOSE y \in S : TRUE IN <<x>> \o SetOrder(S \ {x})

RECURSIVE SumPowers(_, _, _)
\* sum([p for bi, p in zip(bases, powers) if bi is b])
SumPowers(self, b, i) ==
    IF i > Len(self.bases) THEN FZero
    ELSE FAdd(IF self.bases[i] = b THEN self.powers[i] ELSE FZero, SumPowers(self, b, i + 1))

RECURSIVE InsertDesc(_, _)
\* insert the pair x into a list sorted by descending power, after its equals
InsertDesc(sorted, x) ==
    IF sorted = << >> THEN <<x>>
    ELSE IF FLess(sorted[1][1], x[1]) THEN <<x>> \o sorted
    ELSE <<sorted[1]>> \o InsertDesc(Tail(sorted), x)

RECURSIVE SortDesc(_, _)
\* sorted(..., reverse=True, cmp=...): stable, by descending power
SortDesc(pairs, i) ==
    IF i = 0 THEN << >>
    ELSE (CHOOSE it \in {InsertDesc(sorted, pairs[i]) :
            sorted \in {SortDesc(pairs, i - 1)}} : TRUE)

Gather(unit) ==
    (CHOOSE it \in {(CHOOSE it \in {(CHOOSE it \in {(CHOOSE it \in {CompositeUnit(self.scale, [k \in 1..Len(bp) |-> bp[k][2]],
                      [k \in 1..Len(bp) |-> bp[k][1]]) :
            bp \in {SortDesc(kept, Len(kept))}} : TRUE) :
            kept \in {SelectSeq([k \in 1..Len(bases) |-> <<SumPowers(self, bases[k], 1), bases[k]>>],
                  LAMBDA x : x[1] /= FZero)}} : TRUE) :
            bases \in {SetOrder({self.bases[i] : i \in 1..Len(self.bases)})}} : TRUE) :
            self \in {unit}} : TRUE)

copy(self) == CompositeUnit(self.scale, self.bases, self.powers)

\* UnitBase.simplify, NoUnit.simplify: self; CompositeUnit.simplify: expand, gather
Simplify(unit) ==
    (CHOOSE it \in {IF self.kind = "C" THEN Gather(Expand(self, FALSE)) ELSE self :
            self \in {unit}} : TRUE)

\* IrreducibleUnit.irrep, NamedUnit.irrep, CompositeUnit.irrep, NoUnit.irrep
Irrep(unit) ==
    (CHOOSE it \in {CASE self.kind = "I" -> CompositeUnit(SOne, <<self>>, <<FOne>>)
          [] self.kind = "N" -> Irrep(self.represents)
          [] self.kind = "C" -> Gather(Expand(copy(self), TRUE))
          [] OTHER -> self :
            self \in {unit}} : TRUE)

(***************************************************************************)
(* Operators of UnitBase and NoUnit. A plain number operand is a record    *)
(* [kind |-> "num", val |-> scale].                                        *)
(***************************************************************************)
Num(s) == [kind |-> "num", val |-> s]

\* __pow__(self, p), p an int, a Fraction or an already converted tuple
Pow(unit, p) ==
    (CHOOSE it \in {IF self.kind = "NoUnit" THEN self
        ELSE Simplify(CompositeUnit(SOne, <<self>>, <<p>>)) :
            self \in {unit}} : TRUE)

\* __div__(self, m)
Div(unit, other) ==
    (CHOOSE it \in {(CHOOSE it \in {IF self.kind = "NoUnit" THEN self
        ELSE IF m.kind = "NoUnit" THEN NoUnit
        ELSE IF IsUnitBase(m)
             THEN Simplify(CompositeUnit(SOne, <<self, m>>, <<FOne, FInt(-1)>>))
             ELSE Simplify(CompositeUnit(SPow(m.val, FInt(-1)), <<self>>, <<FOne>>)) :
            m \in {other}} : TRUE) :
            self \in {unit}} : TRUE)

\* __mul__(self, m)
Mul(unit, other) ==
    (CHOOSE it \in {(CHOOSE it \in {IF self.kind = "NoUnit" THEN self
        ELSE IF m.kind = "NoUnit" THEN NoUnit
        ELSE IF IsUnitBase(m)
             THEN Simplify(CompositeUnit(SOne, <<self, m>>, <<FOne, FOne>>))
             ELSE Simplify(CompositeUnit(m.val, <<self>>, <<FOne>>)) :
            m \in {other}} : TRUE) :
            self \in {unit}} : TRUE)

\* __rmul__(self, m): m * self for a number m
RMul(unit, m) ==
    (CHOOSE it \in {IF self.kind = "NoUnit" THEN self
        ELSE Simplify(CompositeUnit(m.val, <<self>>, <<FOne>>)) :
            self \in {unit}} : TRUE)

\* __rdiv__(self, m): m / self for a number m
RDiv(unit, m) ==
    (CHOOSE it \in {IF self.kind = "NoUnit" THEN self
        ELSE Simplify(CompositeUnit(m.val, <<self>>, <<FInt(-1)>>)) :
            self \in {unit}} : TRUE)

(***************************************************************************)
(* The units the module registers when it is loaded (a subset: the         *)
(* irreducible units m, s, kg, a and the named units cm, km, N, J, each    *)
(* defined as in the source).                                              *)
(***************************************************************************)
m == IrreducibleUnitObj(<<"m">>)

s == IrreducibleUnitObj(<<"s">>)

kg == IrreducibleUnitObj(<<"k", "g">>)

a == IrreducibleUnitObj(<<"a">>)

cm == NamedUnitObj(<<"c", "m">>, RMul(m, Num(SFromRatio(1, 100))))

km == NamedUnitObj(<<"k", "m">>, RMul(m, Num(SFromRatio(1000, 1))))

N == NamedUnitObj(<<"N">>, Mul(Mul(kg, m), Pow(s, FInt(-2))))

J == NamedUnitObj(<<"J">>, Mul(N, m))

StandardUnits == {m, s, kg, a, cm, km, N, J}

StandardRegistry == [st \in {u.name : u \in StandardUnits} |->
                        CHOOSE u \in StandardUnits : u.name = st]

(***************************************************************************)
(* Rendering: str() of numbers and units.                                  *)
(***************************************************************************)
Digits == <<"0", "1", "2", "3", "4", "5", "6", "7", "8", "9">>

IsDigit(c) == \E k \in 1..Len(Digits) : Digits[k] = c

DigitValue(c) == (CHOOSE k \in 1..Len(Digits) : Digits[k] = c) - 1

RECURSIVE NatToStr(_)
NatToStr(n) ==
    IF n < 10 THEN <<Digits[n + 1]>>
    ELSE NatToStr(n \div 10) \o <<Digits[(n % 10) + 1]>>

IntToStr(n) == IF n < 0 THEN <<"-">> \o NatToStr(-n) ELSE NatToStr(n)

\* str(p) of an int or a Fraction: "n" or "n/d"
PowerToStr(p) ==
    IF p[2] = 1 THEN IntToStr(p[1]) ELSE IntToStr(p[1]) \o <<"/">> \o IntToStr(p[2])

RECURSIVE Exp10(_, _)
\* the decimal exponent e of n/d > 0: 10^e <= n/d < 10^(e+1)
Exp10(n, d) ==
    IF n >= 10 * d THEN Exp10(n, 10 * d) + 1
    ELSE IF n < d THEN Exp10(10 * n, d) - 1
    ELSE 0

\* n/d rounded to the nearest integer, halves to even
RoundHalfEven(n, d) ==
    LET q == n \div d
        r == n % d
    IN  IF 2 * r > d THEN q + 1
        ELSE IF 2 * r < d THEN q
        ELSE q + (q % 2)

\* "%.2e" % scale, for a scale with a rational value
FormatE2(scale) ==
    (CHOOSE it \in {LET e0 == Exp10(f[1], f[2])
        m0 == IF e0 <= 2 THEN RoundHalfEven(f[1] * IPow(10, 2 - e0), f[2])
              ELSE RoundHalfEven(f[1], f[2] * IPow(10, e0 - 2))
        m3 == IF m0 = 1000 THEN 100 ELSE m0
        e  == IF m0 = 1000 THEN e0 + 1 ELSE e0
        ee == NatToStr(Abs(e))
    IN  <<Digits[(m3 \div 100) + 1], ".", Digits[((m3 \div 10) % 10) + 1], Digits[(m3 % 10) + 1],
          "e", IF e < 0 THEN "-" ELSE "+">>
        \o (IF Len(ee) < 2 THEN <<"0">> ELSE << >>) \o ee :
            f \in {SAsFrac(scale)}} : TRUE)

RECURSIVE Str(_)
RECURSIVE StrLoop(_, _, _)
\* the loop of CompositeUnit.__str__ over zip(bases, powers); acc = << >> is None
StrLoop(self, i, acc) ==
    IF i > Len(self.bases) THEN acc
    ELSE LET b  == self.bases[i]
             p  == self.powers[i]
             s1 == IF acc /= << >> THEN acc \o <<" ">> \o Str(b) ELSE Str(b)
             s2 == IF p /= FOne THEN s1 \o <<"*", "*">> \o PowerToStr(p) ELSE s1
         IN  (CHOOSE it \in {StrLoop(self, i + 1, next) :
            next \in {s2}} : TRUE)

\* __str__ of IrreducibleUnit, NamedUnit and CompositeUnit; NoUnit has __repr__ only
Str(self) ==
    CASE self.kind \in {"I", "N"} -> self.name
      [] self.kind = "C" ->
            IF Len(self.bases) = 0 THEN FormatE2(self.scale)
            ELSE StrLoop(self, 1, IF self.scale /= SOne THEN FormatE2(self.scale) ELSE << >>)
      [] OTHER -> <<"N", "o", "U", "n", "i", "t", "(", ")">>

(***************************************************************************)
(* Parsing: str.split, float(), Fraction(), and the Unit factory.          *)
(***************************************************************************)
RECURSIVE SplitLoop(_, _, _)
\* s.split(): the maximal runs of non-whitespace characters
SplitLoop(st, i, cur) ==
    IF i > Len(st) THEN (IF cur = << >> THEN << >> ELSE <<cur>>)
    ELSE IF st[i] \in Whitespace
         THEN (IF cur = << >> THEN << >> ELSE <<cur>>) \o SplitLoop(st, i + 1, << >>)
         ELSE SplitLoop(st, i + 1, Append(cur, st[i]))

Split(st) == SplitLoop(st, 1, << >>)

RECURSIVE SplitOnLoop(_, _, _)
SplitOnLoop(st, sep, cur) ==
    IF st = << >> THEN <<cur>>
    ELSE IF Len(st) >= Len(sep) /\ SubSeq(st, 1, Len(sep)) = sep
         THEN <<cur>> \o SplitOnLoop(SubSeq(st, Len(sep) + 1, Len(st)), sep, << >>)
         ELSE SplitOnLoop(Tail(st), sep, Append(cur, Head(st)))

\* st.split(sep)
SplitOn(st, sep) == SplitOnLoop(st, sep, << >>)

AllDigits(st) == st /= << >> /\ \A i \in 1..Len(st) : IsDigit(st[i])

RECURSIVE StrToNat(_)
StrToNat(st) ==
    IF st = << >> THEN 0 ELSE 10 * StrToNat(SubSeq(st, 1, Len(st) - 1)) + DigitValue(st[Len(st)])

\* a decimal integer with an optional sign, or "bad"
ParseInt(st) ==
    LET signed == st /= << >> /\ st[1] \in {"+", "-"}
        body   == IF signed THEN Tail(st) ELSE st
    IN  IF ~AllDigits(body) THEN [ok |-> FALSE]
        ELSE [ok |-> TRUE, val |-> IF signed /\ st[1] = "-" THEN -StrToNat(body) ELSE StrToNat(body)]

\* float(st) for an unsigned decimal literal digits[.digits][e[sign]digits] of
\* positive value; any other text is rejected (ValueError). Signed, zero, hex and
\* inf/nan literals are outside the model.
ParseFloat(st) ==
    LET parts == SplitOn(st, <<"e">>)
        mant  == SplitOn(parts[1], <<".">>)
        ip    == mant[1]
        fp    == IF Len(mant) = 2 THEN mant[2] ELSE << >>
        ex    == IF Len(parts) = 2 THEN ParseInt(parts[2]) ELSE [ok |-> TRUE, val |-> 0]
        wf    == /\ Len(parts) <= 2
                 /\ Len(mant) <= 2
                 /\ ip \o fp /= << >>
                 /\ \A i \in 1..Len(ip \o fp) : IsDigit((ip \o fp)[i])
                 /\ ex.ok
                 /\ StrToNat(ip \o fp) > 0
    IN  IF ~wf THEN [ok |-> FALSE]
        ELSE LET n == StrToNat(ip \o fp)
                 e == ex.val - Len(fp)
             IN  [ok |-> TRUE,
                  val |-> IF e >= 0 THEN SFromRatio(n * IPow(10, e), 1)
                          ELSE SFromRatio(n, IPow(10, -e))]

\* Fraction(st) for "[sign]digits[/digits]"; decimal literals are outside the model
ParseFraction(st) ==
    LET parts == SplitOn(st, <<"/">>)
        num   == ParseInt(parts[1])
        den   == IF Len(parts) = 2 THEN parts[2] ELSE <<"1">>
    IN  IF Len(parts) > 2 \/ ~num.ok \/ ~AllDigits(den)
        THEN Raise("ValueError", "Invalid literal for Fraction")
        ELSE IF StrToNat(den) = 0 THEN Raise("ZeroDivisionError", "Fraction(n, 0)")
        ELSE Return(Frac(num.val, StrToNat(den)))

\* the body of the loop of Unit() for one token: the (unit, power) it appends
UnitToken(reg, com) ==
    IF Contains(com, <<"*", "*">>) \/ Contains(com, <<"^">>)
    THEN LET sp == SplitOn(com, IF Contains(com, <<"*", "*">>) THEN <<"*", "*">> ELSE <<"^">>)
         IN  IF sp[1] \notin DOMAIN reg THEN Raise("ValueError", "Unknown unit")
             ELSE LET p == ParseFraction(sp[2])
                  IN  IF Returned(p) THEN Return(<<reg[sp[1]], p.val>>) ELSE p
    ELSE IF com \notin DOMAIN reg THEN Raise("KeyError", com)
         ELSE Return(<<reg[com], FOne>>)

RECURSIVE UnitLoop(_, _, _, _)
UnitLoop(reg, x, i, acc) ==
    IF i > Len(x) THEN Return(acc)
    ELSE (CHOOSE it \in {IF Returned(t)
             THEN (CHOOSE it \in {UnitLoop(reg, x, i + 1, next) :
            next \in {CompositeUnit(acc.scale, Append(acc.bases, t.val[1]),
                                    Append(acc.powers, t.val[2]))}} : TRUE)
             ELSE t :
            t \in {UnitToken(reg, x[i])}} : TRUE)

\* Unit(s) for a string s (a sequence of characters), with the registry reg
UnitFromString(reg, st) ==
    (CHOOSE it \in {(CHOOSE it \in {UnitLoop(reg, IF f.ok THEN Tail(x0) ELSE x0, 1,
                 CompositeUnit(IF f.ok THEN f.val ELSE SOne, << >>, << >>)) :
            f \in {IF x0 = << >> THEN [ok |-> FALSE] ELSE ParseFloat(x0[1])}} : TRUE) :
            x0 \in {Split(st)}} : TRUE)

\* a str argument, as distinct from a unit object or a number
PyStr(chars) == [kind |-> "str", chars |-> chars]

\* the Unit factory: a unit is returned as it is, a string is parsed
Unit(reg, v) ==
    IF IsUnitBase(v) THEN Return(v) ELSE UnitFromString(reg, v.chars)

(***************************************************************************)
(* The conversion engine and the comparisons. Python's True, False and     *)
(* None are the strings "True", "False" and "None". A substitutions        *)
(* mapping is a function from names to scales.                             *)
(***************************************************************************)
PyBool(b) == IF b THEN "True" ELSE "False"

NoSubstitutions == [st \in {} |-> SOne]

RECURSIVE DimensionlessLoop(_, _, _, _)
\* the loop of dimensionless_constant over zip(x._bases, x._powers)
DimensionlessLoop(x, i, c, substitutions) ==
    IF i > Len(x.bases) THEN Return(c)
    ELSE IF Str(x.bases[i]) \in DOMAIN substitutions
         THEN (CHOOSE it \in {DimensionlessLoop(x, i + 1, next, substitutions) :
            next \in {SMul(c, SPow(substitutions[Str(x.bases[i])], x.powers[i]))}} : TRUE)
         ELSE Raise("UnitsException", "Not dimensionless")

\* CompositeUnit.dimensionless_constant; no other class defines the method
DimensionlessConstant(self, substitutions) ==
    IF self.kind /= "C" THEN Raise("AttributeError", "dimensionless_constant")
    ELSE (CHOOSE it \in {DimensionlessLoop(x, 1, x.scale, substitutions) :
            x \in {Irrep(self)}} : TRUE)

\* ratio without its except clause: the failure of dimensionless_constant
\* reaches the caller as it is
RatioUnwrapped(reg, self, other, substitutions) ==
    IF self.kind = "NoUnit"
    THEN IF other.kind = "NoUnit" THEN Return(SOne)
         ELSE Raise("UnitsException", "Unknown units")
    ELSE (CHOOSE it \in {IF ~Returned(o) THEN o
                         ELSE DimensionlessConstant(Div(self, o.val), substitutions) :
            o \in {IF other.kind = "str" THEN Unit(reg, other) ELSE Return(other)}} : TRUE)

\* UnitBase.ratio and NoUnit.ratio
Ratio(reg, self, other, substitutions) ==
    IF self.kind = "NoUnit"
    THEN IF other.kind = "NoUnit" THEN Return(SOne)
         ELSE Raise("UnitsException", "Unknown units")
    ELSE (CHOOSE it \in {IF ~Returned(o) THEN o
             ELSE (CHOOSE it \in {(CHOOSE it \in {IF r.exc = "UnitsException"
                      THEN Raise("UnitsException", "Not convertible")
                      ELSE r :
            r \in {DimensionlessConstant(quotient, substitutions)}} : TRUE) :
            quotient \in {Div(self, o.val)}} : TRUE) :
            o \in {IF other.kind = "str" THEN Unit(reg, other) ELSE Return(other)}} : TRUE)

\* __eq__
Eq(reg, self, other) ==
    (CHOOSE it \in {IF Returned(r) THEN Return(PyBool(r.val = SOne))
        ELSE IF r.exc = "UnitsException" THEN Return("False")
        ELSE r :
            r \in {Ratio(reg, self, other, NoSubstitutions)}} : TRUE)

\* __ne__
Ne(reg, self, other) ==
    (CHOOSE it \in {IF Returned(r) THEN Return(PyBool(r.val /= "True")) ELSE r :
            r \in {Eq(reg, self, other)}} : TRUE)

\* __lt__
Lt(reg, self, other) ==
    (CHOOSE it \in {IF Returned(r) THEN Return(PyBool(SLessOne(r.val))) ELSE r :
            r \in {Ratio(reg, self, other, NoSubstitutions)}} : TRUE)

\* __gt__
Gt(reg, self, other) ==
    (CHOOSE it \in {IF Returned(r) THEN Return(PyBool(SGreaterOne(r.val))) ELSE r :
            r \in {Ratio(reg, self, other, NoSubstitutions)}} : TRUE)

\* __le__
Le(reg, self, other) ==
    (CHOOSE it \in {IF Returned(r) THEN Return(PyBool(~SGreaterOne(r.val))) ELSE r :
            r \in {Ratio(reg, self, other, NoSubstitutions)}} : TRUE)

\* __ge__
Ge(reg, self, other) ==
    (CHOOSE it \in {IF Returned(r) THEN Return(PyBool(~SLessOne(r.val))) ELSE r :
            r \in {Ratio(reg, self, other, NoSubstitutions)}} : TRUE)

\* is_dimensionless of UnitBase (inherited by IrreducibleUnit and NamedUnit),
\* NoUnit and CompositeUnit (which falls off its end, returning None)
IsDimensionless(self) ==
    CASE self.kind = "NoUnit" -> "True"
      [] self.kind = "C" -> (CHOOSE it \in {IF Len(x.powers) = 0 THEN "True" ELSE "None" :
            x \in {Irrep(self)}} : TRUE)
      [] OTHER -> "False"

(***************************************************************************)
(* Registration.                                                           *)
(***************************************************************************)
\* _register_unit without its test for a name already registered
RegisterUnitOverwriting(reg, self, st) ==
    IF Contains(st, <<"*", "*">>) \/ Contains(st, <<"^">>) \/ Contains(st, <<" ">>)
    THEN [out |-> Raise("UnitsException", "Unit names cannot contain '**' or '^' or spaces"),
          reg |-> reg]
    ELSE [out |-> Return(self),
          reg |-> [n \in DOMAIN reg \cup {st} |-> IF n = st THEN self ELSE reg[n]]]

\* _register_unit: the outcome and the registry it leaves
RegisterUnit(reg, self, st) ==
    IF st \in DOMAIN reg
    THEN [out |-> Raise("UnitsException", "Unit with this name already exists"), reg |-> reg]
    ELSE IF Contains(st, <<"*", "*">>) \/ Contains(st, <<"^">>) \/ Contains(st, <<" ">>)
    THEN [out |-> Raise("UnitsException", "Unit names cannot contain '**' or '^' or spaces"),
          reg |-> reg]
    ELSE [out |-> Return(self),
          reg |-> [n \in DOMAIN reg \cup {st} |-> IF n = st THEN self ELSE reg[n]]]

\* no call is in progress
Idle == call.op = "idle"

\* IrreducibleUnit(st)
IrreducibleUnit(st) ==
    LET r == RegisterUnit(registry, IrreducibleUnitObj(st), st)
    IN  /\ call' = [op |-> "IrreducibleUnit", st |-> st]
        /\ result' = r.out
        /\ registry' = r.reg
        /\ UNCHANGED heap

\* NamedUnit(st, represents)
NamedUnit(st, represents) ==
    LET r == RegisterUnit(registry, NamedUnitObj(st, represents), st)
    IN  /\ call' = [op |-> "NamedUnit", st |-> st, represents |-> represents]
        /\ result' = r.out
        /\ registry' = r.reg
        /\ UNCHANGED heap

\* the state once the module is loaded: no call is in progress
Init ==
    /\ registry = StandardRegistry
    /\ call = [op |-> "idle"]
    /\ result = Return("None")
    /\ heap = NoObjects

\* the caller takes the outcome of the call; the next call can be made
Done ==
    /\ ~Idle
    /\ call' = [op |-> "idle"]
    /\ result' = Return("None")
    /\ UNCHANGED <<registry, heap>>

\* the names registered since the module was loaded
UserNames == DOMAIN registry \ DOMAIN StandardRegistry

(***************************************************************************)
(* The registry under registrations.                                       *)
(***************************************************************************)
\* at most this many units are registered after the module is loaded
MaxRegistrations == 2

\* names offered for registration: fresh ones, names with a space, a tab, "**",
\* "*" or "^" in them, and names the module has registered already
RegNames ==
    { <<"x">>, <<"y">>, <<"x", "\t", "y">>, <<"x", "*", "y">>, <<"\t">>,
      <<"x", " ", "y">>, <<"x", "*", "*", "y">>, <<"x", "^", "y">>, <<" ">>,
      <<"m">>, <<"c", "m">> }

\* definitions offered to NamedUnit
RegDefinitions == { RMul(m, Num(SFromRatio(1000, 1))), Div(m, s) }

RegistryNext ==
    \/ /\ Idle /\ Cardinality(UserNames) < MaxRegistrations
       /\ \E st \in RegNames : IrreducibleUnit(st)
    \/ /\ Idle /\ Cardinality(UserNames) < MaxRegistrations
       /\ \E st \in RegNames, represents \in RegDefinitions : NamedUnit(st, represents)
    \/ Done

SpecRegistry == Init /\ [][RegistryNext]_vars

\* C5: a registration of a name already in the registry raises the
\* duplicate-name units error and leaves the registry as it was, and no step
\* removes an entry of the registry or changes the unit a name maps to.
C5_RegisteredNamesKeepTheirUnit ==
    [][ /\ \A n \in DOMAIN registry : n \in DOMAIN registry' /\ registry'[n] = registry[n]
        /\ (call'.op \in {"IrreducibleUnit", "NamedUnit"} /\ call'.st \in DOMAIN registry)
             => /\ result' = Raise("UnitsException", "Unit with this name already exists")
                /\ registry' = registry ]_vars

\* a name the user registered has been offered again and refused
C5_Witness ==
    /\ call.op \in {"IrreducibleUnit", "NamedUnit"}
    /\ call.st \in UserNames
    /\ result = Raise("UnitsException", "Unit with this name already exists")

\* whitespace characters, and the names the parser reserves
HasReserved(st) ==
    \/ \E i \in 1..Len(st) : st[i] \in Whitespace
    \/ Contains(st, <<"*", "*">>)
    \/ Contains(st, <<"^">>)

\* C6: no name in the registry contains a whitespace character, "**" or "^",
\* and a registration of such a name raises the invalid-name units error and
\* leaves the registry as it was.
C6_NoReservedCharacterInNames ==
    /\ \A n \in DOMAIN registry : ~HasReserved(n)
    /\ (call.op \in {"IrreducibleUnit", "NamedUnit"} /\ HasReserved(call.st))
         => result = Raise("UnitsException",
                           "Unit names cannot contain '**' or '^' or spaces")

(***************************************************************************)
(* Calls of the unit algebra. Each call records its arguments and its      *)
(* outcome; none changes the registry.                                     *)
(***************************************************************************)
CallIrrep(self) ==
    /\ call' = [op |-> "irrep", self |-> self]
    /\ result' = Return(Irrep(self))
    /\ UNCHANGED <<registry, heap>>

CallIsDimensionless(self) ==
    /\ call' = [op |-> "is_dimensionless", self |-> self]
    /\ result' = Return(IsDimensionless(self))
    /\ UNCHANGED <<registry, heap>>

CallRatio(self, other, substitutions) ==
    /\ call' = [op |-> "ratio", self |-> self, other |-> other,
                substitutions |-> substitutions]
    /\ result' = Ratio(registry, self, other, substitutions)
    /\ UNCHANGED <<registry, heap>>

CallEq(self, other) ==
    /\ call' = [op |-> "__eq__", self |-> self, other |-> other]
    /\ result' = Eq(registry, self, other)
    /\ UNCHANGED <<registry, heap>>

CallNe(self, other) ==
    /\ call' = [op |-> "__ne__", self |-> self, other |-> other]
    /\ result' = Ne(registry, self, other)
    /\ UNCHANGED <<registry, heap>>

CallLt(self, other) ==
    /\ call' = [op |-> "__lt__", self |-> self, other |-> other]
    /\ result' = Lt(registry, self, other)
    /\ UNCHANGED <<registry, heap>>

CallGt(self, other) ==
    /\ call' = [op |-> "__gt__", self |-> self, other |-> other]
    /\ result' = Gt(registry, self, other)
    /\ UNCHANGED <<registry, heap>>

CallLe(self, other) ==
    /\ call' = [op |-> "__le__", self |-> self, other |-> other]
    /\ result' = Le(registry, self, other)
    /\ UNCHANGED <<registry, heap>>

CallGe(self, other) ==
    /\ call' = [op |-> "__ge__", self |-> self, other |-> other]
    /\ result' = Ge(registry, self, other)
    /\ UNCHANGED <<registry, heap>>

(***************************************************************************)
(* The unit algebra over the loaded units and one unit the user defines.   *)
(***************************************************************************)
\* directly constructed composites nest to this depth
MaxDepth == 2

Registered == {registry[n] : n \in DOMAIN registry}

\* definitions offered for the user's named unit x: m/m, 2*(m/m), 10*cm, NoUnit
AlgDefinitions ==
    { Div(m, m), RMul(Div(m, m), Num(SFromRatio(2, 1))),
      RMul(cm, Num(SFromRatio(10, 1))), NoUnit }

PowerPool == {FInt(-1), FInt(2), Frac(1, 2), Frac(-2, 3)}

\* units made with the operators from the registered ones
Built ==
    Registered
    \cup {Pow(u, p) : u \in Registered, p \in PowerPool}
    \cup {Mul(u, v) : u \in Registered, v \in {m, a, cm}}
    \cup {Div(u, v) : u \in Registered, v \in {m, a, cm}}
    \cup {RMul(u, Num(SFromRatio(1000, 1))) : u \in Registered}

RECURSIVE Nested(_)
\* composites made with the constructor, unsimplified, nested to depth d
Nested(d) ==
    IF d = 0
    THEN {CompositeUnit(SFromRatio(2, 1), <<cm, s>>, <<FInt(2), FInt(-1)>>)}
         \cup {CompositeUnit(SOne, <<registry[n], m>>, <<FOne, FOne>>) : n \in UserNames}
    ELSE {CompositeUnit(SFromRatio(3, 1), <<c, m, c>>, <<p, FInt(-1), FOne>>) :
            c \in Nested(d - 1), p \in {FInt(-1), Frac(1, 2)}}

Operands == Built \cup UNION {Nested(d) : d \in 0..MaxDepth} \cup {NoUnit}

\* the second operand of ratio
Others == {m, a, cm, Mul(km, a)} \cup {registry[n] : n \in UserNames} \cup Nested(0)

SubstitutionPool ==
    { NoSubstitutions,
      [st \in {<<"a">>} |-> SFromRatio(1, 2)],
      [st \in {<<"a">>, <<"m">>, <<"x">>} |->
          IF st = <<"a">> THEN SFromRatio(1, 2) ELSE SFromRatio(3, 1)] }

AlgebraNext ==
    \/ /\ Idle /\ UserNames = {}
       /\ \E represents \in AlgDefinitions : NamedUnit(<<"x">>, represents)
    \/ Idle /\ \E self \in Operands : CallIrrep(self)
    \/ Idle /\ \E self \in Operands : CallIsDimensionless(self)
    \/ Idle /\ \E self \in Operands, other \in Others, substitutions \in SubstitutionPool :
                CallRatio(self, other, substitutions)
    \/ Done

SpecAlgebra == Init /\ [][AlgebraNext]_vars

RECURSIVE SubstitutedProduct(_, _, _)
\* R's scale times S[name(b)] ** power(b) over the first n bases b of R
SubstitutedProduct(R, S, n) ==
    IF n = 0 THEN R.scale
    ELSE SMul(SPow(S[Str(R.bases[n])], R.powers[n]), SubstitutedProduct(R, S, n - 1))

\* the names of the bases that remain in R
RemainingNames(R) == {Str(R.bases[i]) : i \in 1..Len(R.bases)}

\* C1: for A and B other than NoUnit and R = (A/B).irrep(), A.ratio(B, S)
\* returns R's scale times S[name(b)] ** power(b) over the bases b of R when
\* every such name is a key of S, raises the "not convertible" units error
\* otherwise, and is the same with the keys of S that name no base of R left out.
C1_RatioIsSubstitutedScale ==
    (call.op = "ratio" /\ call.self.kind /= "NoUnit" /\ call.other.kind /= "NoUnit")
    => LET R == Irrep(Div(call.self, call.other))
           S == call.substitutions
           used == [n \in DOMAIN S \cap RemainingNames(R) |-> S[n]]
       IN  /\ RemainingNames(R) \subseteq DOMAIN S
                => result = Return(SubstitutedProduct(R, S, Len(R.bases)))
           /\ ~(RemainingNames(R) \subseteq DOMAIN S)
                => result = Raise("UnitsException", "Not convertible")
           /\ result = Ratio(registry, call.self, call.other, used)

\* a ratio that a substitution makes a number, with a key of S naming a
\* dimension that cancels
C1_Witness ==
    /\ call.op = "ratio" /\ call.self.kind /= "NoUnit" /\ call.other.kind /= "NoUnit"
    /\ Returned(result)
    /\ LET R == Irrep(Div(call.self, call.other))
       IN  /\ RemainingNames(R) /= {}
           /\ DOMAIN call.substitutions \ RemainingNames(R) /= {}
           /\ result.val /= R.scale

\* C2: U.irrep() is expressed in irreducible units only: every base is an
\* IrreducibleUnit, no base appears twice and no power is zero.
C2_IrrepIsIrreducible ==
    (call.op = "irrep" /\ result.val.kind = "C")
    => LET x == result.val
       IN  /\ Len(x.bases) = Len(x.powers)
           /\ \A i \in 1..Len(x.bases) : x.bases[i].kind = "I" /\ x.powers[i] /= FZero
           /\ \A i, j \in 1..Len(x.bases) : x.bases[i] = x.bases[j] => i = j

\* U.irrep() is NoUnit or has no base left
NoBaseRemains(U) ==
    LET x == Irrep(U) IN x.kind = "NoUnit" \/ (x.kind = "C" /\ Len(x.bases) = 0)

\* C3: U.is_dimensionless() is true exactly when U is NoUnit or U.irrep() has
\* an empty base list, for a NamedUnit as for the equivalent CompositeUnit.
C3_DimensionlessIffNoBase ==
    call.op = "is_dimensionless"
    => (result = Return("True") <=> (call.self.kind = "NoUnit" \/ NoBaseRemains(call.self)))

(***************************************************************************)
(* The comparisons over the loaded units.                                  *)
(***************************************************************************)
Comparands ==
    Registered
    \cup {NoUnit, Pow(s, FInt(-1)), Mul(km, a), Div(m, m),
          RMul(m, Num(SFromRatio(1000, 1))), RMul(cm, Num(SFromRatio(100000, 1)))}
    \cup Nested(0)

CompareNext ==
    \/ Idle /\ \E self \in Comparands, other \in Comparands : CallEq(self, other)
    \/ Idle /\ \E self \in Comparands, other \in Comparands : CallNe(self, other)
    \/ Idle /\ \E self \in Comparands, other \in Comparands : CallLt(self, other)
    \/ Idle /\ \E self \in Comparands, other \in Comparands : CallGt(self, other)
    \/ Idle /\ \E self \in Comparands, other \in Comparands : CallLe(self, other)
    \/ Idle /\ \E self \in Comparands, other \in Comparands : CallGe(self, other)
    \/ Done

SpecCompare == Init /\ [][CompareNext]_vars

\* C4: A == B is true iff A.ratio(B) is exactly 1; when A.ratio(B) fails,
\* A == B is false and A != B is true and neither raises, whatever B is; and
\* each of <, >, <=, >= raises a units error when A.ratio(B) fails.
C4_ComparisonsOfFailedRatio ==
    LET r == Ratio(registry, call.self, call.other, NoSubstitutions)
    IN  /\ call.op = "__eq__"
            => result = Return(PyBool(Returned(r) /\ r.val = SOne))
        /\ call.op = "__ne__"
            => result = Return(PyBool(~(Returned(r) /\ r.val = SOne)))
        /\ (call.op \in {"__lt__", "__gt__", "__le__", "__ge__"} /\ ~Returned(r))
            => (~Returned(result) /\ result.exc = "UnitsException")

(***************************************************************************)
(* The Unit factory and str() over unit strings.                           *)
(***************************************************************************)
CallUnit(v) ==
    /\ call' = [op |-> "Unit", s |-> v]
    /\ result' = Unit(registry, v)
    /\ UNCHANGED <<registry, heap>>

CallStr(self) ==
    /\ call' = [op |-> "__str__", self |-> self]
    /\ result' = Return(PyStr(Str(self)))
    /\ UNCHANGED <<registry, heap>>

\* a unit string has at most this many unit tokens
MaxTokens == 2

\* leading scales: none, and literals that "%.2e" renders without a tie
ScaleLiterals ==
    { << >>, <<"1">>, <<"1", "0">>, <<"1", ".", "2", "3", "4">>, <<"2", ".", "5", "e", "-", "3">> }

\* unit names: registered ones, and one that is not registered
TokenNames == { <<"m">>, <<"c", "m">>, <<"f", "o", "o">> }

\* exponent suffixes
TokenExponents ==
    { << >>, <<"*", "*", "2">>, <<"^", "-", "1">>, <<"*", "*", "-", "2", "/", "3">> }

Tokens == {n \o e : n \in TokenNames, e \in TokenExponents}

\* two parts of a unit string with a space between them
Joined(st, tok) ==
    IF st = << >> THEN tok ELSE IF tok = << >> THEN st ELSE st \o <<" ">> \o tok

RECURSIVE TokenStrings(_)
\* the strings of exactly k unit tokens
TokenStrings(k) ==
    IF k = 0 THEN { << >> }
    ELSE {Joined(st, tok) : st \in TokenStrings(k - 1), tok \in Tokens}

\* the strings offered to the parser; a tab separates as a space does
UnitStrings ==
    {Joined(lit, st) : lit \in ScaleLiterals,
                       st \in UNION {TokenStrings(k) : k \in 0..MaxTokens}}
    \cup { <<"m", "\t", "c", "m">>, <<" ", "m", " ">> }

\* the units the parser returns for them
ParsedUnits ==
    {r.val : r \in {p \in {Unit(registry, PyStr(st)) : st \in UnitStrings} : Returned(p)}}

ParseNext ==
    \/ Idle /\ \E st \in UnitStrings : CallUnit(PyStr(st))
    \/ Idle /\ \E u \in {m, N, NoUnit} : CallUnit(u)
    \/ Idle /\ \E self \in ParsedUnits : CallStr(self)
    \/ Idle /\ \E self \in {m, cm, NoUnit}, st \in UnitStrings :
                CallRatio(self, PyStr(st), NoSubstitutions)
    \/ Done

SpecParse == Init /\ [][ParseNext]_vars

\* the name a unit token looks up in the registry
TokenName(com) ==
    IF Contains(com, <<"*", "*">>) THEN SplitOn(com, <<"*", "*">>)[1]
    ELSE IF Contains(com, <<"^">>) THEN SplitOn(com, <<"^">>)[1]
    ELSE com

\* a token of st after the optional leading scale names no registered unit
NamesUnknownUnit(st) ==
    LET x == Split(st)
        units == IF x /= << >> /\ ParseFloat(x[1]).ok THEN Tail(x) ELSE x
    IN  \E i \in 1..Len(units) : TokenName(units[i]) \notin DOMAIN registry

\* C7: Unit(s) for a string s with a token that names no registered unit
\* raises a units error, whether the token is bare or has an exponent, and so
\* does ratio() given that string.
C7_UnknownUnitIsUnitsError ==
    (\/ call.op = "Unit" /\ call.s.kind = "str" /\ NamesUnknownUnit(call.s.chars)
     \/ call.op = "ratio" /\ call.other.kind = "str" /\ NamesUnknownUnit(call.other.chars))
    => (~Returned(result) /\ result.exc = "UnitsException")

\* C8: for a string s the parser accepts, the unit parsed from str(Unit(s))
\* has ratio exactly 1 to Unit(s).
C8_RoundTripRatioIsOne ==
    (call.op = "Unit" /\ call.s.kind = "str" /\ Returned(result))
    => LET again == Unit(registry, PyStr(Str(result.val)))
       IN  /\ Returned(again)
           /\ Ratio(registry, again.val, result.val, NoSubstitutions) = Return(SOne)

(***************************************************************************)
(* Dimensional projection. A matrix is a sequence of rows, a row a         *)
(* sequence of fractions; numpy's arrays of Fraction objects.              *)
(***************************************************************************)
\* a numpy array, or a list: the elements of the sequence f, each computed once
Array(f) == << >> \o f

RECURSIVE FSum(_)
FSum(xs) == IF xs = << >> THEN FZero ELSE FAdd(Head(xs), FSum(Tail(xs)))

\* np.dot of two vectors
Dot(x, y) == FSum(Array([i \in 1..Len(x) |-> FMul(x[i], y[i])]))

\* matrix.transpose() of a matrix with k columns
Transpose(A, k) == Array([j \in 1..k |-> Array([i \in 1..Len(A) |-> A[i][j]])])

\* np.dot(A, B) for B with k columns
MatMul(A, B, k) ==
    Array([i \in 1..Len(A) |->
             Array([j \in 1..k |-> Dot(A[i], Array([l \in 1..Len(B) |-> B[l][j]]))])])

\* np.dot(A, x) for a vector x
MatVec(A, x) == Array([i \in 1..Len(A) |-> Dot(A[i], x)])

\* A without row i and column j
Minor(A, i, j) ==
    LET rows == SelectSeq([r \in 1..Len(A) |-> <<r, A[r]>>], LAMBDA e : e[1] /= i)
    IN  Array([r \in 1..Len(rows) |->
            LET cols == SelectSeq([c \in 1..Len(rows[r][2]) |-> <<c, rows[r][2][c]>>],
                                  LAMBDA e : e[1] /= j)
            IN  Array([c \in 1..Len(cols) |-> cols[c][2]])])

RECURSIVE Det(_)
\* the determinant, expanded along the first row
Det(A) ==
    IF Len(A) = 0 THEN FOne
    ELSE FSum(Array([j \in 1..Len(A) |->
                 FMul(IF j % 2 = 1 THEN A[1][j] ELSE FNeg(A[1][j]), Det(Minor(A, 1, j)))]))

\* util.rational_matrix_inv: the exact inverse over the rationals, or
\* numpy's LinAlgError for a singular matrix
RationalMatrixInv(A) ==
    (CHOOSE it \in {IF d = FZero THEN Raise("LinAlgError", "Singular matrix")
                    ELSE Return(Array([i \in 1..Len(A) |-> Array([j \in 1..Len(A) |->
                            FMul(IF (i + j) % 2 = 0 THEN FInv(d) ELSE FNeg(FInv(d)),
                                 Det(Minor(A, j, i)))])])) :
            d \in {Det(A)}} : TRUE)

\* _power_of with a wrong index: the power of the first base whatever base is found
PowerOfFirst(reg, self, base) ==
    LET found == {i \in 1..Len(self.bases) :
                    self.bases[i] = base \/ Eq(reg, self.bases[i], base) = Return("True")}
    IN  IF found = {} THEN FZero ELSE self.powers[1]

\* CompositeUnit._power_of: "in" and "index" take the first base that is the
\* same object or compares equal
PowerOf(reg, self, base) ==
    LET found == {i \in 1..Len(self.bases) :
                    self.bases[i] = base \/ Eq(reg, self.bases[i], base) = Return("True")}
    IN  IF found = {} THEN FZero
        ELSE self.powers[CHOOSE i \in found : \A j \in found : i <= j]

\* the solution of the normal equations returned without its check
SolveUnchecked(matrix, my_powers, k) ==
    LET M_T_M_inv == RationalMatrixInv(MatMul(Transpose(matrix, k), matrix, k))
    IN  IF ~Returned(M_T_M_inv)
        THEN Raise("UnitsException", "Basis units are not linearly independent")
        ELSE Return(MatVec(M_T_M_inv.val, MatVec(Transpose(matrix, k), my_powers)))

\* dimensional_project from the matrix on: the normal equations, the inverse,
\* the candidate and its check
Solve(matrix, my_powers, k) ==
    (CHOOSE it \in {IF ~Returned(M_T_M_inv)
                    THEN Raise("UnitsException", "Basis units are not linearly independent")
                    ELSE (CHOOSE it \in {
                            IF MatVec(matrix, candidate) /= my_powers
                            THEN Raise("UnitsException",
                                       "Basis units do not span dimensions of specified unit")
                            ELSE Return(candidate) :
            candidate \in {MatVec(M_T_M_inv.val,
                                  MatVec(Transpose(matrix, k), my_powers))}} : TRUE) :
            M_T_M_inv \in {RationalMatrixInv(MatMul(Transpose(matrix, k), matrix, k))}} : TRUE)

\* CompositeUnit.dimensional_project; no other class defines the method, and
\* NoUnit has no _bases
DimensionalProject(reg, self, basis_units) ==
    IF self.kind /= "C" THEN Raise("AttributeError", "dimensional_project")
    ELSE (CHOOSE it \in {
            IF \E i \in 1..Len(units) : ~Returned(units[i])
            THEN units[CHOOSE i \in 1..Len(units) :
                         ~Returned(units[i]) /\ \A j \in 1..(i - 1) : Returned(units[j])]
            ELSE (CHOOSE it \in {(CHOOSE it \in {
                    IF \E v \in 1..Len(vec_irrep) : vec_irrep[v].kind /= "C"
                    THEN Raise("AttributeError", "_bases")
                    ELSE (CHOOSE it \in {(CHOOSE it \in {(CHOOSE it \in {
                            Solve(matrix, my_powers, Len(vec_irrep)) :
            my_powers \in {Array([b \in 1..Len(bases) |->
                                     PowerOf(reg, me_irrep, bases[b])])}} : TRUE) :
            matrix \in {Array([b \in 1..Len(bases) |-> Array([v \in 1..Len(vec_irrep) |->
                            PowerOf(reg, vec_irrep[v], bases[b])])])}} : TRUE) :
            bases \in {SetOrder({me_irrep.bases[i] : i \in 1..Len(me_irrep.bases)}
                         \cup UNION {{vec_irrep[v].bases[i] : i \in 1..Len(vec_irrep[v].bases)} :
                                        v \in 1..Len(vec_irrep)})}} : TRUE) :
            me_irrep \in {Irrep(self)}} : TRUE) :
            vec_irrep \in {Array([i \in 1..Len(units) |-> Irrep(units[i].val)])}} : TRUE) :
            units \in {Array([i \in 1..Len(basis_units) |-> Unit(reg, basis_units[i])])}} : TRUE)

CallDimensionalProject(self, basis_units) ==
    /\ call' = [op |-> "dimensional_project", self |-> self, basis_units |-> basis_units]
    /\ result' = DimensionalProject(registry, self, basis_units)
    /\ UNCHANGED <<registry, heap>>

(***************************************************************************)
(* Projections of composite units onto bases of up to MaxBasis units.      *)
(***************************************************************************)
\* a basis has at most this many units
MaxBasis == 3

\* the units projected: m, m**3 kg**-1 s**-2, m**1/2, kg (m/s)**2 and m/m
Projected ==
    { Unit(registry, PyStr(<<"m">>)).val,
      Unit(registry, PyStr(<<"m", "*", "*", "3", " ", "k", "g", "*", "*", "-", "1", " ",
                             "s", "*", "*", "-", "2">>)).val,
      Pow(m, Frac(1, 2)), Mul(kg, Pow(Div(m, s), FInt(2))), Div(m, m) }

\* the entries of a basis: units of each class, a name, and NoUnit
BasisEntries == { m, kg, N, Div(m, s), PyStr(<<"s">>), NoUnit }

RECURSIVE Bases(_)
\* the bases of exactly k entries
Bases(k) ==
    IF k = 0 THEN { << >> }
    ELSE {Append(b, e) : b \in Bases(k - 1), e \in BasisEntries}

ProjectNext ==
    \/ Idle /\ \E self \in Projected, basis_units \in UNION {Bases(k) : k \in 1..MaxBasis} :
                CallDimensionalProject(self, basis_units)
    \/ Idle /\ \E self \in Projected : CallIrrep(self)
    \/ Done

SpecProject == Init /\ [][ProjectNext]_vars

\* every entry of the basis is a unit with a base list, or names one
WellFormedBasis(basis_units) ==
    \A i \in 1..Len(basis_units) :
        /\ Returned(Unit(registry, basis_units[i]))
        /\ Irrep(Unit(registry, basis_units[i]).val).kind = "C"

\* the basis units in irreducible units
BasisVectors(basis_units) ==
    Array([i \in 1..Len(basis_units) |-> Irrep(Unit(registry, basis_units[i]).val)])

\* the irreducible dimensions that appear in U or in a basis unit
Dimensions(U, vecs) ==
    SetOrder({Irrep(U).bases[i] : i \in 1..Len(Irrep(U).bases)}
             \cup UNION {{vecs[v].bases[i] : i \in 1..Len(vecs[v].bases)} : v \in 1..Len(vecs)})

\* the power of x, a unit in irreducible units, along the dimension dim
PowerAlong(x, dim) ==
    FSum(Array([i \in 1..Len(x.bases) |-> IF x.bases[i] = dim THEN x.powers[i] ELSE FZero]))

\* one row per dimension, one column per basis unit
PowerMatrix(vecs, dims) ==
    Array([b \in 1..Len(dims) |->
             Array([v \in 1..Len(vecs) |-> PowerAlong(vecs[v], dims[b])])])

PowerVector(U, dims) == Array([b \in 1..Len(dims) |-> PowerAlong(Irrep(U), dims[b])])

\* the rows of A whose index is in S
Rows(A, S) == LET kept == SelectSeq([r \in 1..Len(A) |-> <<r, A[r]>>], LAMBDA e : e[1] \in S)
              IN  Array([r \in 1..Len(kept) |-> kept[r][2]])

\* the k columns of A are linearly independent: some k rows have a nonzero determinant
Independent(A, k) ==
    \E S \in SUBSET (1..Len(A)) : Cardinality(S) = k /\ Det(Rows(A, S)) /= FZero

\* v is a combination of the k independent columns of A: A with the column v
\* added has no k+1 rows of nonzero determinant
InSpan(A, v, k) ==
    \A S \in SUBSET (1..Len(A)) :
        Cardinality(S) = k + 1
        => Det(Rows(Array([b \in 1..Len(A) |-> Append(A[b], v[b])]), S)) = FZero

\* a reduced fraction with a positive denominator
IsFraction(x) == x = Frac(x[1], x[2]) /\ x[2] > 0

\* d has one exact rational per basis unit and the basis units' powers,
\* weighted by d, add up to U's power along every dimension
SolvesPowers(d, U, basis_units) ==
    LET vecs == BasisVectors(basis_units)
        dims == Dimensions(U, vecs)
    IN  /\ Len(d) = Len(basis_units)
        /\ \A i \in 1..Len(d) : IsFraction(d[i])
        /\ MatVec(PowerMatrix(vecs, dims), d) = PowerVector(U, dims)

\* C9: when the basis units' power vectors are linearly independent and U's
\* power vector is in their span, dimensional_project returns a vector d of one
\* exact rational per basis unit with sum_i d_i * power(basis_i, dim) =
\* power(U, dim) for every irreducible dimension dim of U or of a basis unit;
\* and no call returns a d for which this fails.
C9_ProjectionSolvesPowers ==
    (call.op = "dimensional_project" /\ WellFormedBasis(call.basis_units))
    => LET vecs == BasisVectors(call.basis_units)
           dims == Dimensions(call.self, vecs)
           A    == PowerMatrix(vecs, dims)
           v    == PowerVector(call.self, dims)
           k    == Len(call.basis_units)
       IN  /\ (Independent(A, k) /\ InSpan(A, v, k)) => Returned(result)
           /\ Returned(result) => SolvesPowers(result.val, call.self, call.basis_units)

\* m**3 kg**-1 s**-2 projected on m, kg, s is 3, -1, -2
C9_Witness ==
    /\ call.op = "dimensional_project"
    /\ Len(call.basis_units) = 3
    /\ result = Return(<<FInt(3), FInt(-1), FInt(-2)>>)

\* C10: dimensional_project raises the "not linearly independent" units error
\* when the basis units' power vectors are linearly dependent, and the "do not
\* span" units error when they are independent and U's power vector is not in
\* their span.
C10_ProjectionFailures ==
    (call.op = "dimensional_project" /\ WellFormedBasis(call.basis_units))
    => LET vecs == BasisVectors(call.basis_units)
           dims == Dimensions(call.self, vecs)
           A    == PowerMatrix(vecs, dims)
           v    == PowerVector(call.self, dims)
           k    == Len(call.basis_units)
       IN  /\ ~Independent(A, k)
                => result = Raise("UnitsException", "Basis units are not linearly independent")
           /\ (Independent(A, k) /\ ~InSpan(A, v, k))
                => result = Raise("UnitsException",
                                  "Basis units do not span dimensions of specified unit")

\* m projected on kg, s: an independent basis that does not span
C10_Witness ==
    /\ call.op = "dimensional_project"
    /\ call.self = Unit(registry, PyStr(<<"m">>)).val
    /\ call.basis_units = <<kg, PyStr(<<"s">>)>>
    /\ result = Raise("UnitsException", "Basis units do not span dimensions of specified unit")

(***************************************************************************)
(* Units as objects. A reference is the index of an object in heap.objs;   *)
(* a CompositeUnit object holds its scale and the references (indices in   *)
(* heap.lists) of its _bases and _powers lists; a NamedUnit object holds   *)
(* the reference of its definition. A step of the code takes a heap h and  *)
(* gives [heap |-> the heap after it, val |-> what it returns].            *)
(***************************************************************************)
\* a list display or a slice: a new list object
NewList(h, elements) ==
    [heap |-> [h EXCEPT !.lists = Append(@, elements)], val |-> Len(h.lists) + 1]

\* a new unit object
NewObject(h, obj) ==
    [heap |-> [h EXCEPT !.objs = Append(@, obj)], val |-> Len(h.objs) + 1]

\* NoUnit()
NewNoUnit(h) == NewObject(h, [kind |-> "NoUnit"])

\* IrreducibleUnit(st), the name being free
NewIrreducibleUnit(h, st) == NewObject(h, [kind |-> "I", name |-> st])

\* NamedUnit(st, represents), the name being free
NewNamedUnit(h, st, represents) ==
    NewObject(h, [kind |-> "N", name |-> st, represents |-> represents])

\* CompositeUnit(scale, bases, powers), bases and powers being lists
NewCompositeUnit(h, scale, bases, powers) ==
    NewObject(h, [kind |-> "C", scale |-> scale, bases |-> bases, powers |-> powers])

\* CompositeUnit(scale, [...], [...]) with two list displays
CompositeOf(h, scale, bases, powers) ==
    (CHOOSE it \in {(CHOOSE it \in {NewCompositeUnit(lp.heap, scale, lb.val, lp.val) :
            lp \in {NewList(lb.heap, powers)}} : TRUE) :
            lb \in {NewList(h, bases)}} : TRUE)

\* self._bases and self._powers as they are now
BasesOf(h, self) == h.lists[h.objs[self].bases]

PowersOf(h, self) == h.lists[h.objs[self].powers]

\* zip(x._bases, x._powers): a new list of pairs, as long as the shorter list
Zip(bases, powers) ==
    [i \in 1..(IF Len(bases) < Len(powers) THEN Len(bases) ELSE Len(powers)) |->
        <<bases[i], powers[i]>>]

RECURSIVE ObjIrrep(_, _)

\* the body of the loop of _expand for a base b that is a CompositeUnit
ObjExpandInto(h, self, b, p) ==
    (CHOOSE it \in {[h EXCEPT
            !.objs[self].scale = SMul(@, SPow(h.objs[b].scale, p)),
            !.lists[h.objs[self].bases] = @ \o [j \in 1..Len(sub) |-> sub[j][1]],
            !.lists[h.objs[self].powers] = @ \o [j \in 1..Len(sub) |-> FMul(sub[j][2], p)]] :
            sub \in {Array(Zip(BasesOf(h, b), PowersOf(h, b)))}} : TRUE)

\* one iteration of the loop of _expand over (i, (b, p))
ObjExpandStep(h, self, b0, p, expand_to_irrep) ==
    (CHOOSE it \in {IF r1.heap.objs[r1.val].kind = "C"
        THEN (CHOOSE it \in {[heap |-> ObjExpandInto(r2.heap, self, r2.val, p), val |-> TRUE] :
            r2 \in {IF expand_to_irrep THEN ObjIrrep(r1.heap, r1.val) ELSE r1}} : TRUE)
        ELSE [heap |-> r1.heap, val |-> FALSE] :
            r1 \in {IF h.objs[b0].kind = "N" /\ expand_to_irrep
                    THEN ObjIrrep(h, h.objs[b0].represents)
                    ELSE [heap |-> h, val |-> b0]}} : TRUE)

RECURSIVE ObjExpandLoop(_, _, _, _, _, _)
\* the loop runs over the list of pairs zip() made on entry
ObjExpandLoop(h, self, snapshot, i, trash, expand_to_irrep) ==
    IF i > Len(snapshot) THEN [heap |-> h, val |-> trash]
    ELSE (CHOOSE it \in {ObjExpandLoop(r.heap, self, snapshot, i + 1,
                                       IF r.val THEN trash \cup {i} ELSE trash,
                                       expand_to_irrep) :
            r \in {ObjExpandStep(h, self, snapshot[i][1], snapshot[i][2], expand_to_irrep)}} : TRUE)

\* self._expand(expand_to_irrep): in place, on the lists of self
ObjExpand(h0, self, expand_to_irrep) ==
    (CHOOSE it \in {(CHOOSE it \in {[h EXCEPT
            !.lists[h.objs[self].bases] = DeleteAt(@, r.val, 1),
            !.lists[h.objs[self].powers] = DeleteAt(@, r.val, 1)] :
            h \in {r.heap}} : TRUE) :
            r \in {ObjExpandLoop(h0, self, Array(Zip(BasesOf(h0, self), PowersOf(h0, self))),
                                 1, {}, expand_to_irrep)}} : TRUE)

\* _gather without its filter: the bases whose powers sum to zero stay
ObjGatherKeepingZeros(h, self) ==
    (CHOOSE it \in {(CHOOSE it \in {(CHOOSE it \in {(CHOOSE it \in {(CHOOSE it \in {(CHOOSE it \in {[lb.heap EXCEPT !.objs[self].powers = lp.val, !.objs[self].bases = lb.val] :
            lb \in {NewList(lp.heap, [k \in 1..Len(bp) |-> bp[k][2]])}} : TRUE) :
            lp \in {NewList(h, [k \in 1..Len(bp) |-> bp[k][1]])}} : TRUE) :
            bp \in {SortDesc(kept, Len(kept))}} : TRUE) :
            kept \in {Array([k \in 1..Len(bases) |-> <<SumPowers(old, bases[k], 1), bases[k]>>])}} : TRUE) :
            bases \in {SetOrder({old.bases[i] : i \in 1..Len(old.bases)})}} : TRUE) :
            old \in {[bases |-> Array(BasesOf(h, self)), powers |-> Array(PowersOf(h, self))]}} : TRUE)

\* self._gather(): self gets two new lists
ObjGather(h, self) ==
    (CHOOSE it \in {(CHOOSE it \in {(CHOOSE it \in {(CHOOSE it \in {(CHOOSE it \in {(CHOOSE it \in {[lb.heap EXCEPT !.objs[self].powers = lp.val, !.objs[self].bases = lb.val] :
            lb \in {NewList(lp.heap, [k \in 1..Len(bp) |-> bp[k][2]])}} : TRUE) :
            lp \in {NewList(h, [k \in 1..Len(bp) |-> bp[k][1]])}} : TRUE) :
            bp \in {SortDesc(kept, Len(kept))}} : TRUE) :
            kept \in {SelectSeq([k \in 1..Len(bases) |-> <<SumPowers(old, bases[k], 1), bases[k]>>],
                                LAMBDA x : x[1] /= FZero)}} : TRUE) :
            bases \in {SetOrder({old.bases[i] : i \in 1..Len(old.bases)})}} : TRUE) :
            old \in {[bases |-> Array(BasesOf(h, self)), powers |-> Array(PowersOf(h, self))]}} : TRUE)

\* copy without its slices: a new object on the lists of self
ObjCopyOnSameLists(h, self) ==
    NewCompositeUnit(h, h.objs[self].scale, h.objs[self].bases, h.objs[self].powers)

\* self.copy(): a new object with new lists of the same entries
ObjCopy(h, self) ==
    (CHOOSE it \in {(CHOOSE it \in {NewCompositeUnit(lp.heap, h.objs[self].scale, lb.val, lp.val) :
            lp \in {NewList(lb.heap, PowersOf(h, self))}} : TRUE) :
            lb \in {NewList(h, BasesOf(h, self))}} : TRUE)

\* self.simplify(): UnitBase and NoUnit return self; CompositeUnit expands and
\* gathers in place
ObjSimplify(h, self) ==
    IF h.objs[self].kind = "C"
    THEN [heap |-> ObjGather(ObjExpand(h, self, FALSE), self), val |-> self]
    ELSE [heap |-> h, val |-> self]

\* self.irrep() of IrreducibleUnit, NamedUnit, CompositeUnit and NoUnit
ObjIrrep(h, self) ==
    CASE h.objs[self].kind = "I" -> CompositeOf(h, SOne, <<self>>, <<FOne>>)
      [] h.objs[self].kind = "N" -> ObjIrrep(h, h.objs[self].represents)
      [] h.objs[self].kind = "C" ->
            (CHOOSE it \in {[heap |-> ObjGather(ObjExpand(x.heap, x.val, TRUE), x.val),
                             val |-> x.val] :
            x \in {ObjCopy(h, self)}} : TRUE)
      [] OTHER -> [heap |-> h, val |-> self]

RECURSIVE ValueOf(_, _)
\* the unit an object stands for, its lists read as they are now
ValueOf(h, self) ==
    CASE h.objs[self].kind = "I" -> IrreducibleUnitObj(h.objs[self].name)
      [] h.objs[self].kind = "N" ->
            NamedUnitObj(h.objs[self].name, ValueOf(h, h.objs[self].represents))
      [] h.objs[self].kind = "C" ->
            CompositeUnit(h.objs[self].scale,
                          Array([i \in 1..Len(BasesOf(h, self)) |-> ValueOf(h, BasesOf(h, self)[i])]),
                          PowersOf(h, self))
      [] OTHER -> NoUnit

\* __pow__(self, p)
ObjPow(h, self, p) ==
    IF h.objs[self].kind = "NoUnit" THEN [heap |-> h, val |-> self]
    ELSE (CHOOSE it \in {ObjSimplify(c.heap, c.val) :
            c \in {CompositeOf(h, SOne, <<self>>, <<p>>)}} : TRUE)

\* __div__(self, m), m a unit
ObjDiv(h, self, other) ==
    IF h.objs[self].kind = "NoUnit" THEN [heap |-> h, val |-> self]
    ELSE IF h.objs[other].kind = "NoUnit" THEN NewNoUnit(h)
    ELSE (CHOOSE it \in {ObjSimplify(c.heap, c.val) :
            c \in {CompositeOf(h, SOne, <<self, other>>, <<FOne, FInt(-1)>>)}} : TRUE)

\* __mul__(self, m), m a unit
ObjMul(h, self, other) ==
    IF h.objs[self].kind = "NoUnit" THEN [heap |-> h, val |-> self]
    ELSE IF h.objs[other].kind = "NoUnit" THEN NewNoUnit(h)
    ELSE (CHOOSE it \in {ObjSimplify(c.heap, c.val) :
            c \in {CompositeOf(h, SOne, <<self, other>>, <<FOne, FOne>>)}} : TRUE)

\* is_dimensionless of UnitBase, NoUnit and CompositeUnit
ObjIsDimensionless(h, self) ==
    CASE h.objs[self].kind = "NoUnit" -> [heap |-> h, out |-> Return("True")]
      [] h.objs[self].kind = "C" ->
            (CHOOSE it \in {[heap |-> x.heap,
                             out |-> Return(IF Len(PowersOf(x.heap, x.val)) = 0
                                            THEN "True" ELSE "None")] :
            x \in {ObjIrrep(h, self)}} : TRUE)
      [] OTHER -> [heap |-> h, out |-> Return("False")]

\* CompositeUnit.dimensionless_constant; no other class defines the method
ObjDimensionlessConstant(h, self, substitutions) ==
    IF h.objs[self].kind /= "C"
    THEN [heap |-> h, out |-> Raise("AttributeError", "dimensionless_constant")]
    ELSE (CHOOSE it \in {(CHOOSE it \in {
            [heap |-> x.heap, out |-> DimensionlessLoop(v, 1, v.scale, substitutions)] :
            v \in {ValueOf(x.heap, x.val)}} : TRUE) :
            x \in {ObjIrrep(h, self)}} : TRUE)

\* UnitBase.ratio and NoUnit.ratio, other a unit
ObjRatio(h, self, other, substitutions) ==
    IF h.objs[self].kind = "NoUnit"
    THEN [heap |-> h,
          out |-> IF h.objs[other].kind = "NoUnit" THEN Return(SOne)
                  ELSE Raise("UnitsException", "Unknown units")]
    ELSE (CHOOSE it \in {(CHOOSE it \in {
            [heap |-> r.heap,
             out |-> IF r.out.exc = "UnitsException"
                     THEN Raise("UnitsException", "Not convertible")
                     ELSE r.out] :
            r \in {ObjDimensionlessConstant(quotient.heap, quotient.val, substitutions)}} : TRUE) :
            quotient \in {ObjDiv(h, self, other)}} : TRUE)

\* __eq__
ObjEq(h, self, other) ==
    (CHOOSE it \in {
        [heap |-> r.heap,
         out |-> IF Returned(r.out) THEN Return(PyBool(r.out.val = SOne))
                 ELSE IF r.out.exc = "UnitsException" THEN Return("False")
                 ELSE r.out] :
            r \in {ObjRatio(h, self, other, NoSubstitutions)}} : TRUE)

\* __lt__
ObjLt(h, self, other) ==
    (CHOOSE it \in {
        [heap |-> r.heap,
         out |-> IF Returned(r.out) THEN Return(PyBool(SLessOne(r.out.val))) ELSE r.out] :
            r \in {ObjRatio(h, self, other, NoSubstitutions)}} : TRUE)

RECURSIVE ObjFind(_, _, _, _, _)
\* the search of "base in bases" (element_first FALSE: base == element) and of
\* bases.index(base) (element_first TRUE: element == base) from position i on:
\* the position of the first element that is base or compares equal to it, or 0
ObjFind(h, bases, base, i, element_first) ==
    IF i > Len(bases) THEN [heap |-> h, out |-> Return(0)]
    ELSE IF bases[i] = base THEN [heap |-> h, out |-> Return(i)]
    ELSE (CHOOSE it \in {
            IF ~Returned(r.out) THEN r
            ELSE IF r.out.val = "True" THEN [heap |-> r.heap, out |-> Return(i)]
            ELSE ObjFind(r.heap, bases, base, i + 1, element_first) :
            r \in {IF element_first THEN ObjEq(h, bases[i], base)
                   ELSE ObjEq(h, base, bases[i])}} : TRUE)

\* CompositeUnit._power_of
ObjPowerOf(h, self, base) ==
    (CHOOSE it \in {
        IF ~Returned(found.out) THEN found
        ELSE IF found.out.val = 0 THEN [heap |-> found.heap, out |-> Return(FZero)]
        ELSE (CHOOSE it \in {
                IF ~Returned(at.out) THEN at
                ELSE [heap |-> at.heap, out |-> Return(PowersOf(at.heap, self)[at.out.val])] :
            at \in {ObjFind(found.heap, BasesOf(found.heap, self), base, 1, TRUE)}} : TRUE) :
            found \in {ObjFind(h, BasesOf(h, self), base, 1, FALSE)}} : TRUE)

RECURSIVE ObjPowers(_, _, _, _)
\* [x._power_of(base) for ...] over the pairs <<x, base>> of queries, in order
ObjPowers(h, queries, i, acc) ==
    IF i > Len(queries) THEN [heap |-> h, out |-> Return(acc)]
    ELSE (CHOOSE it \in {
            IF ~Returned(r.out) THEN r
            ELSE ObjPowers(r.heap, queries, i + 1, Append(acc, r.out.val)) :
            r \in {ObjPowerOf(h, queries[i][1], queries[i][2])}} : TRUE)

RECURSIVE ObjIrrepAll(_, _, _, _)
\* [Unit(x).irrep() for x in basis_units], the entries being units
ObjIrrepAll(h, basis_units, i, acc) ==
    IF i > Len(basis_units) THEN [heap |-> h, val |-> acc]
    ELSE (CHOOSE it \in {ObjIrrepAll(r.heap, basis_units, i + 1, Append(acc, r.val)) :
            r \in {ObjIrrep(h, basis_units[i])}} : TRUE)

\* CompositeUnit.dimensional_project, basis_units a list of units
ObjDimensionalProject(h, self, basis_units) ==
    IF h.objs[self].kind /= "C"
    THEN [heap |-> h, out |-> Raise("AttributeError", "dimensional_project")]
    ELSE (CHOOSE it \in {(CHOOSE it \in {
            IF \E v \in 1..Len(vec_irrep.val) : me_irrep.heap.objs[vec_irrep.val[v]].kind /= "C"
            THEN [heap |-> me_irrep.heap, out |-> Raise("AttributeError", "_bases")]
            ELSE (CHOOSE it \in {(CHOOSE it \in {
                    IF ~Returned(matrix.out) THEN matrix
                    ELSE (CHOOSE it \in {
                            IF ~Returned(my_powers.out) THEN my_powers
                            ELSE [heap |-> my_powers.heap,
                                  out |-> Solve(Array([b \in 1..Len(bases) |->
                                                   SubSeq(matrix.out.val,
                                                          (b - 1) * Len(vec_irrep.val) + 1,
                                                          b * Len(vec_irrep.val))]),
                                                my_powers.out.val, Len(vec_irrep.val))] :
            my_powers \in {ObjPowers(matrix.heap,
                                     Array([b \in 1..Len(bases) |-> <<me_irrep.val, bases[b]>>]),
                                     1, << >>)}} : TRUE) :
            matrix \in {ObjPowers(me_irrep.heap,
                                  Array([q \in 1..(Len(bases) * Len(vec_irrep.val)) |->
                                      <<vec_irrep.val[((q - 1) % Len(vec_irrep.val)) + 1],
                                        bases[((q - 1) \div Len(vec_irrep.val)) + 1]>>]),
                                  1, << >>)}} : TRUE) :
            bases \in {SetOrder({BasesOf(me_irrep.heap, me_irrep.val)[i] :
                                    i \in 1..Len(BasesOf(me_irrep.heap, me_irrep.val))}
                         \cup UNION {{BasesOf(me_irrep.heap, vec_irrep.val[v])[i] :
                                        i \in 1..Len(BasesOf(me_irrep.heap, vec_irrep.val[v]))} :
                                     v \in 1..Len(vec_irrep.val)})}} : TRUE) :
            me_irrep \in {ObjIrrep(vec_irrep.heap, self)}} : TRUE) :
            vec_irrep \in {ObjIrrepAll(h, basis_units, 1, << >>)}} : TRUE)

(***************************************************************************)
(* Reference counting: an object or list that no variable of the caller    *)
(* and no live object refers to is freed. The references that remain are   *)
(* renumbered in their order.                                              *)
(***************************************************************************)
\* the objects an object refers to
RefersTo(h, r) ==
    CASE h.objs[r].kind = "N" -> {h.objs[r].represents}
      [] h.objs[r].kind = "C" -> {BasesOf(h, r)[i] : i \in 1..Len(BasesOf(h, r))}
      [] OTHER -> {}

RECURSIVE Reachable(_, _)
Reachable(h, roots) ==
    (CHOOSE it \in {IF more \subseteq roots THEN roots ELSE Reachable(h, roots \cup more) :
            more \in {UNION {RefersTo(h, r) : r \in roots}}} : TRUE)

\* the i-th smallest member of a set of references
Nth(S, i) == CHOOSE r \in S : Cardinality({k \in S : k <= r}) = i

\* the place of x in a sequence that holds it
Position(seq, x) == CHOOSE k \in 1..Len(seq) : seq[k] = x

RECURSIVE ListsOf(_, _, _, _)
\* the lists of the live composites, each once, in the order of their objects
ListsOf(h, live, i, acc) ==
    IF i > Cardinality(live) THEN acc
    ELSE (CHOOSE it \in {
            IF o.kind /= "C" THEN ListsOf(h, live, i + 1, acc)
            ELSE (CHOOSE it2 \in {
                    ListsOf(h, live, i + 1,
                            IF \E k \in 1..Len(acc1) : acc1[k] = o.powers THEN acc1
                            ELSE Append(acc1, o.powers)) :
                    acc1 \in {IF \E k \in 1..Len(acc) : acc[k] = o.bases THEN acc
                              ELSE Append(acc, o.bases)}} : TRUE) :
            o \in {h.objs[Nth(live, i)]}} : TRUE)

Collect(h, roots) ==
    (CHOOSE it \in {(CHOOSE it \in {(CHOOSE it \in {
        [objs  |-> Array([i \in 1..Cardinality(live) |->
                     (CHOOSE it2 \in {
                        CASE o.kind = "N" ->
                                [o EXCEPT !.represents = Cardinality({k \in live : k <= @})]
                          [] o.kind = "C" ->
                                [o EXCEPT !.bases = Position(lists, @),
                                          !.powers = Position(lists, @)]
                          [] OTHER -> o :
                        o \in {h.objs[Nth(live, i)]}} : TRUE)]),
         lists |-> Array([i \in 1..Len(lists) |->
                     IF lists[i] \in base_lists
                     THEN Array([j \in 1..Len(h.lists[lists[i]]) |->
                                   Cardinality({k \in live : k <= h.lists[lists[i]][j]})])
                     ELSE h.lists[lists[i]]])] :
            base_lists \in {{h.objs[r].bases : r \in {k \in live : h.objs[k].kind = "C"}}}} : TRUE) :
            lists \in {ListsOf(h, live, 1, << >>)}} : TRUE) :
            live \in {Reachable(h, roots)}} : TRUE)

(***************************************************************************)
(* Calls on unit objects. A call records its arguments and the heap it     *)
(* started from; the heap is left as the call leaves it, the objects and   *)
(* lists the call made included.                                           *)
(***************************************************************************)
ObjCallSimplify(self) ==
    LET r == ObjSimplify(heap, self)
    IN  /\ call' = [op |-> "simplify", self |-> self, before |-> heap]
        /\ result' = Return(r.val)
        /\ heap' = r.heap
        /\ UNCHANGED registry

ObjCallIrrep(self) ==
    LET r == ObjIrrep(heap, self)
    IN  /\ call' = [op |-> "irrep", self |-> self, before |-> heap]
        /\ result' = Return(r.val)
        /\ heap' = r.heap
        /\ UNCHANGED registry

ObjCallPow(self, p) ==
    LET r == ObjPow(heap, self, p)
    IN  /\ call' = [op |-> "__pow__", self |-> self, p |-> p, before |-> heap]
        /\ result' = Return(r.val)
        /\ heap' = r.heap
        /\ UNCHANGED registry

ObjCallMul(self, other) ==
    LET r == ObjMul(heap, self, other)
    IN  /\ call' = [op |-> "__mul__", self |-> self, other |-> other, before |-> heap]
        /\ result' = Return(r.val)
        /\ heap' = r.heap
        /\ UNCHANGED registry

ObjCallDiv(self, other) ==
    LET r == ObjDiv(heap, self, other)
    IN  /\ call' = [op |-> "__div__", self |-> self, other |-> other, before |-> heap]
        /\ result' = Return(r.val)
        /\ heap' = r.heap
        /\ UNCHANGED registry

ObjCallIsDimensionless(self) ==
    LET r == ObjIsDimensionless(heap, self)
    IN  /\ call' = [op |-> "is_dimensionless", self |-> self, before |-> heap]
        /\ result' = r.out
        /\ heap' = r.heap
        /\ UNCHANGED registry

ObjCallDimensionlessConstant(self) ==
    LET r == ObjDimensionlessConstant(heap, self, NoSubstitutions)
    IN  /\ call' = [op |-> "dimensionless_constant", self |-> self, before |-> heap]
        /\ result' = r.out
        /\ heap' = r.heap
        /\ UNCHANGED registry

ObjCallRatio(self, other) ==
    LET r == ObjRatio(heap, self, other, NoSubstitutions)
    IN  /\ call' = [op |-> "ratio", self |-> self, other |-> other, before |-> heap]
        /\ result' = r.out
        /\ heap' = r.heap
        /\ UNCHANGED registry

ObjCallEq(self, other) ==
    LET r == ObjEq(heap, self, other)
    IN  /\ call' = [op |-> "__eq__", self |-> self, other |-> other, before |-> heap]
        /\ result' = r.out
        /\ heap' = r.heap
        /\ UNCHANGED registry

ObjCallLt(self, other) ==
    LET r == ObjLt(heap, self, other)
    IN  /\ call' = [op |-> "__lt__", self |-> self, other |-> other, before |-> heap]
        /\ result' = r.out
        /\ heap' = r.heap
        /\ UNCHANGED registry

ObjCallDimensionalProject(self, basis_units) ==
    LET r == ObjDimensionalProject(heap, self, basis_units)
    IN  /\ call' = [op |-> "dimensional_project", self |-> self,
                    basis_units |-> basis_units, before |-> heap]
        /\ result' = r.out
        /\ heap' = r.heap
        /\ UNCHANGED registry

\* the objects the caller held when it made the call
Held == 1..Len(call.before.objs)

\* the caller is done with the outcome of the call; what the call made and
\* nothing refers to any more is freed
ObjDone ==
    /\ ~Idle
    /\ call' = [op |-> "idle"]
    /\ result' = Return("None")
    /\ heap' = Collect(heap, Held)
    /\ UNCHANGED registry

(***************************************************************************)
(* Unit objects made by user code with the constructors, and the calls     *)
(* made on them.                                                           *)
(***************************************************************************)
\* one step of user code: a constructor call or an operator, whose unit the
\* code keeps
Construct(h, step) ==
    CASE step.new = "IrreducibleUnit" -> NewIrreducibleUnit(h, step.st).heap
      [] step.new = "NamedUnit" -> NewNamedUnit(h, step.st, step.represents).heap
      [] step.new = "CompositeUnit" ->
            CompositeOf(h, step.scale, step.bases, step.powers).heap
      [] step.new = "CompositeUnit on the lists of" ->
            NewCompositeUnit(h, step.scale, h.objs[step.of].bases, h.objs[step.of].powers).heap
      [] step.new = "__mul__" -> ObjMul(h, step.self, step.other).heap
      [] step.new = "__div__" -> ObjDiv(h, step.self, step.other).heap
      [] step.new = "__pow__" -> ObjPow(h, step.self, step.p).heap
      [] OTHER -> NewNoUnit(h).heap

RECURSIVE Constructed(_, _)
\* the heap after the first n steps of a script; the i-th step makes object i
Constructed(script, n) ==
    IF n = 0 THEN NoObjects
    ELSE (CHOOSE it \in {Collect(Construct(h, script[n]), 1..n) :
            h \in {Constructed(script, n - 1)}} : TRUE)

\* composites with repeated bases, powers that cancel, and composites for
\* bases, one and two levels deep
NestingScript ==
    << [new |-> "IrreducibleUnit", st |-> <<"m">>],
       [new |-> "IrreducibleUnit", st |-> <<"s">>],
       [new |-> "CompositeUnit", scale |-> SFromRatio(2, 1),
        bases |-> <<1, 2, 1>>, powers |-> <<FInt(2), FInt(-1), FInt(-1)>>],
       [new |-> "CompositeUnit", scale |-> SFromRatio(3, 1),
        bases |-> <<3, 1, 3>>, powers |-> <<FInt(2), FInt(-1), Frac(1, 2)>>],
       [new |-> "CompositeUnit", scale |-> SOne,
        bases |-> <<4, 2>>, powers |-> <<FOne, FOne>>],
       [new |-> "__mul__", self |-> 3, other |-> 2],
       [new |-> "__pow__", self |-> 6, p |-> Frac(-1, 2)] >>

\* named units defined by composites, and composites of named units
NamedScript ==
    << [new |-> "IrreducibleUnit", st |-> <<"m">>],
       [new |-> "IrreducibleUnit", st |-> <<"s">>],
       [new |-> "CompositeUnit", scale |-> SFromRatio(1, 100),
        bases |-> <<1>>, powers |-> <<FOne>>],
       [new |-> "NamedUnit", st |-> <<"c", "m">>, represents |-> 3],
       [new |-> "CompositeUnit", scale |-> SOne,
        bases |-> <<4, 1, 4>>, powers |-> <<FOne, FInt(-2), FOne>>],
       [new |-> "NamedUnit", st |-> <<"x">>, represents |-> 5],
       [new |-> "CompositeUnit", scale |-> SFromRatio(5, 1),
        bases |-> <<6, 2>>, powers |-> <<FOne, FInt(-1)>>] >>

\* two composites on the same lists, and the NoUnit object
SharingScript ==
    << [new |-> "IrreducibleUnit", st |-> <<"m">>],
       [new |-> "IrreducibleUnit", st |-> <<"s">>],
       [new |-> "CompositeUnit", scale |-> SFromRatio(2, 1),
        bases |-> <<1, 1>>, powers |-> <<FOne, FInt(-1)>>],
       [new |-> "CompositeUnit", scale |-> SOne,
        bases |-> <<3, 2>>, powers |-> <<FInt(2), FOne>>],
       [new |-> "CompositeUnit on the lists of", scale |-> SFromRatio(7, 1), of |-> 4],
       [new |-> "NoUnit"] >>

Scripts == {NestingScript, NamedScript, SharingScript}

\* user code has made its units; no call is in progress
ObjectsInit ==
    /\ registry = StandardRegistry
    /\ call = [op |-> "idle"]
    /\ result = Return("None")
    /\ \E script \in Scripts : heap = Constructed(script, Len(script))

Objects == 1..Len(heap.objs)

\* the second operand of a call: the first unit made and the last
OtherObjects == {1, Len(heap.objs)}

ObjPowerPool == {FZero, Frac(-1, 2)}

\* the bases projected on
ObjBases == {<<1>>, <<2, 1>>, <<Len(heap.objs), 2>>}

ObjectsNext ==
    \/ Idle /\ \E self \in Objects : ObjCallSimplify(self)
    \/ Idle /\ \E self \in Objects : ObjCallIrrep(self)
    \/ Idle /\ \E self \in Objects, p \in ObjPowerPool : ObjCallPow(self, p)
    \/ Idle /\ \E self \in Objects, other \in OtherObjects : ObjCallMul(self, other)
    \/ Idle /\ \E self \in Objects, other \in OtherObjects : ObjCallDiv(self, other)
    \/ Idle /\ \E self \in Objects : ObjCallIsDimensionless(self)
    \/ Idle /\ \E self \in Objects : ObjCallDimensionlessConstant(self)
    \/ Idle /\ \E self \in Objects, other \in OtherObjects : ObjCallRatio(self, other)
    \/ Idle /\ \E self \in Objects, other \in OtherObjects : ObjCallEq(self, other)
    \/ Idle /\ \E self \in Objects, other \in OtherObjects : ObjCallLt(self, other)
    \/ Idle /\ \E self \in Objects, basis_units \in ObjBases :
                ObjCallDimensionalProject(self, basis_units)
    \/ ObjDone

SpecObjects == ObjectsInit /\ [][ObjectsNext]_vars

(***************************************************************************)
(* The canonical form simplify() leaves.                                   *)
(***************************************************************************)
\* the call was simplify() on a CompositeUnit, or an operator that made a
\* CompositeUnit and returned it from simplify()
SimplifiedCall ==
    \/ call.op = "simplify" /\ call.before.objs[call.self].kind = "C"
    \/ /\ call.op \in {"__pow__", "__mul__", "__div__"}
       /\ result.val \notin Held
       /\ heap.objs[result.val].kind = "C"

\* the base and power lists simplify() was called on
GivenBases ==
    CASE call.op = "simplify" -> BasesOf(call.before, call.self)
      [] call.op = "__pow__" -> <<call.self>>
      [] OTHER -> <<call.self, call.other>>

GivenPowers ==
    CASE call.op = "simplify" -> PowersOf(call.before, call.self)
      [] call.op = "__pow__" -> <<call.p>>
      [] call.op = "__mul__" -> <<FOne, FOne>>
      [] OTHER -> <<FOne, FInt(-1)>>

\* the sum of the powers of the occurrences of b among the given bases, a
\* base that is a CompositeUnit counting for its own bases, each to its power
\* times the power of the composite
ExpandedPower(h, bases, powers, b) ==
    FSum(Array([i \in 1..Len(bases) |->
        IF h.objs[bases[i]].kind = "C"
        THEN FMul(powers[i],
                  FSum(Array([j \in 1..Len(BasesOf(h, bases[i])) |->
                          IF BasesOf(h, bases[i])[j] = b THEN PowersOf(h, bases[i])[j]
                          ELSE FZero])))
        ELSE IF bases[i] = b THEN powers[i] ELSE FZero]))

\* C11: when simplify() has returned on a CompositeUnit (called directly, or
\* at the end of **, * or /), the base list holds no base twice, no power is
\* zero, the two lists are equally long, the powers descend, and the power of
\* each base is the sum of the powers of its occurrences before gathering.
C11_SimplifiedIsCanonical ==
    SimplifiedCall =>
        LET bs == BasesOf(heap, result.val)
            ps == PowersOf(heap, result.val)
        IN  /\ Len(bs) = Len(ps)
            /\ \A i, j \in 1..Len(bs) : i /= j => bs[i] /= bs[j]
            /\ \A i \in 1..Len(ps) : ps[i] /= FZero
            /\ \A i, j \in 1..Len(ps) : i < j => ~FLess(ps[i], ps[j])
            /\ \A i \in 1..Len(bs) :
                    ps[i] = ExpandedPower(call.before, GivenBases, GivenPowers, bs[i])

\* simplify() was called on a composite with a repeated base and a composite
\* base, and left more than one base
C11_Witness ==
    /\ call.op = "simplify" /\ SimplifiedCall
    /\ \E i, j \in 1..Len(GivenBases) : i /= j /\ GivenBases[i] = GivenBases[j]
    /\ \E i \in 1..Len(GivenBases) : call.before.objs[GivenBases[i]].kind = "C"
    /\ Len(BasesOf(heap, result.val)) > 1

\* C12: when simplify() has returned on a CompositeUnit, however deep its
\* composite bases nest, no base of the unit is a CompositeUnit, and a second
\* simplify() leaves its scale, its base list and its power list as they are.
C12_SimplifyIsIdempotent ==
    (call.op = "simplify" /\ call.before.objs[call.self].kind = "C") =>
        LET again == ObjSimplify(heap, call.self).heap
        IN  /\ \A i \in 1..Len(BasesOf(heap, call.self)) :
                    heap.objs[BasesOf(heap, call.self)[i]].kind /= "C"
            /\ again.objs[call.self].scale = heap.objs[call.self].scale
            /\ BasesOf(again, call.self) = BasesOf(heap, call.self)
            /\ PowersOf(again, call.self) = PowersOf(heap, call.self)

(***************************************************************************)
(* irrep() and the objects it reads.                                       *)
(***************************************************************************)
\* the call is irrep(), or one of the calls that take the irrep of a unit
CallsIrrep ==
    call.op \in {"irrep", "is_dimensionless", "dimensionless_constant", "ratio",
                 "__eq__", "__lt__", "dimensional_project"}

\* C13: irrep(), called directly or by is_dimensionless, dimensionless_constant,
\* ratio, a comparison or dimensional_project, leaves every unit object that
\* was there before the call (the receiver, the composites it nests and the
\* definitions of named units) and every list of theirs as it was; the unit
\* irrep() returns for a CompositeUnit is a new object.
C13_IrrepLeavesUnitsAlone ==
    CallsIrrep =>
        /\ \A r \in Held : heap.objs[r] = call.before.objs[r]
        /\ \A l \in 1..Len(call.before.lists) : heap.lists[l] = call.before.lists[l]
        /\ (call.op = "irrep" /\ call.before.objs[call.self].kind = "C") =>
                result.val \notin Held

\* irrep() of a composite with a composite or named base returned a copy
\* whose base list is not the base list of the receiver
C13_Witness ==
    /\ call.op = "irrep" /\ call.before.objs[call.self].kind = "C"
    /\ \E i \in 1..Len(BasesOf(call.before, call.self)) :
            call.before.objs[BasesOf(call.before, call.self)[i]].kind \in {"C", "N"}
    /\ result.val \notin Held
    /\ BasesOf(heap, result.val) /= BasesOf(heap, call.self)
    /\ BasesOf(heap, call.self) = BasesOf(call.before, call.self)

====
